---- MODULE Spec2Model ----
(***************************************************************************)
(* node2object: conversion of a treexml element tree into a serde_json     *)
(* object (src/src/lib.rs).                                                *)
(*                                                                         *)
(* Strings are sequences of one-character strings, so that format!("@{}"), *)
(* concatenation and the parsers of parse_text are computed on characters. *)
(* A JSON value is a record tagged by t:                                   *)
(*   [t |-> "null"], [t |-> "bool", b], [t |-> "number", neg, m, e]        *)
(*   (the decimal (-1)^neg * m * 10^e, m without trailing zeros),          *)
(*   [t |-> "string", s], [t |-> "array", a], [t |-> "object", o].         *)
(* A serde_json Map is the sequence of its <<key, value>> entries in       *)
(* iteration order.                                                        *)
(***************************************************************************)
EXTENDS Integers, Sequences, FiniteSets, TLC

VARIABLES
    e,              \* the element handed to node2object
    preserve_order, \* serde_json's build feature: Map is an IndexMap (TRUE) or a BTreeMap (FALSE)
    pc,             \* position in node2object / convert_node_aux
    kind,           \* the category scan_xml_node returned for e
    data,           \* convert_node_aux: the Map under construction
    firstpass,      \* convert_node_aux: tags seen once or more
    vectorized,     \* convert_node_aux: tags already promoted to an array
    idx,            \* convert_node_aux: index of the next child of the loop
    out,            \* the Map node2object returns
    text,           \* parse_text: its argument
    parsed          \* parse_text: its result

vars == <<e, preserve_order, pc, kind, data, firstpass, vectorized, idx, out, text, parsed>>

treeVars == <<e, preserve_order, kind, data, firstpass, vectorized, idx, out>>

(***************************************************************************)
(* Bounds of the model.                                                    *)
(***************************************************************************)
MaxChildren == 3
MaxTextLen == 3

(***************************************************************************)
(* Strings and characters.                                                 *)
(***************************************************************************)
Digits == {"0", "1", "2", "3", "4", "5", "6", "7", "8", "9"}

DigitVal(c) ==
    CASE c = "0" -> 0 [] c = "1" -> 1 [] c = "2" -> 2 [] c = "3" -> 3
      [] c = "4" -> 4 [] c = "5" -> 5 [] c = "6" -> 6 [] c = "7" -> 7
      [] c = "8" -> 8 [] c = "9" -> 9

\* ASCII lower-casing, as the float parser applies it to "inf", "infinity", "nan" and "e".
Lower(c) ==
    CASE c = "I" -> "i" [] c = "N" -> "n" [] c = "F" -> "f" [] c = "A" -> "a"
      [] c = "T" -> "t" [] c = "Y" -> "y" [] c = "E" -> "e" [] OTHER -> c

\* Byte value of a character of a Map key (String's Ord is byte-wise).
CharCode(c) ==
    CASE c = "#" -> 35 [] c = "@" -> 64 [] c = "a" -> 97 [] c = "b" -> 98
      [] c = "e" -> 101 [] c = "k" -> 107 [] c = "t" -> 116 [] c = "x" -> 120

RECURSIVE StrLess(_, _)
StrLess(s1, s2) ==
    IF s1 = <<>> THEN s2 # <<>>
    ELSE IF s2 = <<>> THEN FALSE
    ELSE IF Head(s1) = Head(s2) THEN StrLess(Tail(s1), Tail(s2))
    ELSE CharCode(Head(s1)) < CharCode(Head(s2))

IsDigits(s) == \A i \in 1..Len(s) : s[i] \in Digits

RECURSIVE DecVal(_)
DecVal(s) ==
    IF s = <<>> THEN 0
    ELSE DecVal(SubSeq(s, 1, Len(s) - 1)) * 10 + DigitVal(s[Len(s)])

\* Index of the first character of s that is in cs, 0 when there is none.
FirstIndex(s, cs) ==
    IF \E i \in 1..Len(s) : s[i] \in cs
    THEN CHOOSE i \in 1..Len(s) : s[i] \in cs /\ \A j \in 1..(i - 1) : s[j] \notin cs
    ELSE 0

RECURSIVE NumDigits(_)
NumDigits(n) == IF n < 10 THEN 1 ELSE 1 + NumDigits(n \div 10)

RECURSIVE Pow10(_)
Pow10(n) == IF n = 0 THEN 1 ELSE 10 * Pow10(n - 1)

(***************************************************************************)
(* JSON values.                                                            *)
(***************************************************************************)
Null == [t |-> "null"]
Bool(b) == [t |-> "bool", b |-> b]
String(s) == [t |-> "string", s |-> s]
Array(a) == [t |-> "array", a |-> a]
Object(o) == [t |-> "object", o |-> o]

None == [some |-> FALSE, v |-> Null]
Some(v) == [some |-> TRUE, v |-> v]

(***************************************************************************)
(* str::parse::<f64>.  Grammar: Sign? ('inf' | 'infinity' | 'nan' |        *)
(* Number), Number ::= (Digit+ | Digit+ '.' Digit* | Digit* '.' Digit+)    *)
(* Exp?, Exp ::= 'e' Sign? Digit+, letters in either case.  The result is  *)
(* Err, or Ok of a class: "finite" with the decimal value, "inf" (also on  *)
(* overflow beyond f64::MAX) or "nan".                                     *)
(***************************************************************************)
F64Err == [ok |-> FALSE, class |-> "err", neg |-> FALSE, m |-> 0, e |-> 0]
F64Inf(neg) == [ok |-> TRUE, class |-> "inf", neg |-> neg, m |-> 0, e |-> 0]
F64NaN == [ok |-> TRUE, class |-> "nan", neg |-> FALSE, m |-> 0, e |-> 0]

RECURSIVE F64Finite(_, _, _)
F64Finite(neg, m, ex) ==
    IF m = 0 THEN [ok |-> TRUE, class |-> "finite", neg |-> FALSE, m |-> 0, e |-> 0]
    ELSE IF m % 10 = 0 THEN F64Finite(neg, m \div 10, ex + 1)
    ELSE LET mag == NumDigits(m) + ex
         IN IF mag > 309 \/ (mag = 309 /\ m * Pow10(9 - NumDigits(m)) > 179769313)
            THEN F64Inf(neg)
            ELSE IF mag < -323
            THEN [ok |-> TRUE, class |-> "finite", neg |-> FALSE, m |-> 0, e |-> 0]
            ELSE [ok |-> TRUE, class |-> "finite", neg |-> neg, m |-> m, e |-> ex]

ParseF64(s) ==
    LET signed == Len(s) > 0 /\ s[1] \in {"+", "-"}
        neg == signed /\ s[1] = "-"
        body == IF signed THEN Tail(s) ELSE s
        low == [i \in 1..Len(body) |-> Lower(body[i])]
    IN IF low \in {<<"i", "n", "f">>, <<"i", "n", "f", "i", "n", "i", "t", "y">>}
       THEN F64Inf(neg)
       ELSE IF low = <<"n", "a", "n">> THEN F64NaN
       ELSE LET ei == FirstIndex(low, {"e"})
                mant == IF ei = 0 THEN body ELSE SubSeq(body, 1, ei - 1)
                expo == IF ei = 0 THEN <<>> ELSE SubSeq(body, ei + 1, Len(body))
                esigned == Len(expo) > 0 /\ expo[1] \in {"+", "-"}
                edigits == IF esigned THEN Tail(expo) ELSE expo
                di == FirstIndex(mant, {"."})
                ip == IF di = 0 THEN mant ELSE SubSeq(mant, 1, di - 1)
                fp == IF di = 0 THEN <<>> ELSE SubSeq(mant, di + 1, Len(mant))
                wellformed ==
                    /\ IsDigits(ip) /\ IsDigits(fp) /\ Len(ip) + Len(fp) > 0
                    /\ ei # 0 => (IsDigits(edigits) /\ Len(edigits) > 0)
                ev == IF esigned /\ expo[1] = "-" THEN 0 - DecVal(edigits) ELSE DecVal(edigits)
            IN IF wellformed THEN F64Finite(neg, DecVal(ip \o fp), ev - Len(fp)) ELSE F64Err

\* serde_json::Number::from_f64: None unless the float is finite.
NumberFromF64(f) ==
    IF f.class = "finite" THEN Some([t |-> "number", neg |-> f.neg, m |-> f.m, e |-> f.e])
    ELSE None

\* str::parse::<bool>: exactly "true" or "false".
ParseBool(s) ==
    IF s = <<"t", "r", "u", "e">> THEN Some(Bool(TRUE))
    ELSE IF s = <<"f", "a", "l", "s", "e">> THEN Some(Bool(FALSE))
    ELSE None

\* parse_text without the finiteness test of Number::from_f64
parse_text_nonfinite(s) ==
    IF ParseF64(s).ok
    THEN [t |-> "number", neg |-> ParseF64(s).neg, m |-> ParseF64(s).m, e |-> ParseF64(s).e]
    ELSE IF ParseBool(s).some THEN ParseBool(s).v
    ELSE String(s)

parse_text(s) ==
    IF ParseF64(s).ok /\ NumberFromF64(ParseF64(s)).some
    THEN NumberFromF64(ParseF64(s)).v
    ELSE IF ParseBool(s).some THEN ParseBool(s).v
    ELSE String(s)

(***************************************************************************)
(* treexml::Element: name, text, cdata (Option<String>), attributes (the   *)
(* <<name, value>> pairs in iteration order, names unique) and children.   *)
(***************************************************************************)
NoText == [some |-> FALSE, v |-> <<>>]
SomeText(s) == [some |-> TRUE, v |-> s]

Element(name, txt, cdata, attributes, children) ==
    [name |-> name, text |-> txt, cdata |-> cdata, attributes |-> attributes,
     children |-> children]

\* scan_xml_node reading text alone, not CDATA
scan_xml_node_nocdata(el) ==
    IF el.children = <<>>
    THEN IF ~el.text.some
         THEN IF el.attributes = <<>> THEN "Empty" ELSE "Attributes"
         ELSE IF el.attributes = <<>> THEN "Text" ELSE "TextAndAttributes"
    ELSE IF ~el.text.some THEN "Parent" ELSE "SemiStructured"

scan_xml_node(el) ==
    IF el.children = <<>>
    THEN IF ~el.text.some /\ ~el.cdata.some
         THEN IF el.attributes = <<>> THEN "Empty" ELSE "Attributes"
         ELSE IF el.attributes = <<>> THEN "Text" ELSE "TextAndAttributes"
    ELSE IF ~el.text.some /\ ~el.cdata.some THEN "Parent" ELSE "SemiStructured"

\* parse_text_contents with CDATA before text
parse_text_contents_swapped(el) ==
    parse_text((IF el.cdata.some THEN el.cdata.v ELSE <<>>)
               \o (IF el.text.some THEN el.text.v ELSE <<>>))

parse_text_contents(el) ==
    parse_text((IF el.text.some THEN el.text.v ELSE <<>>)
               \o (IF el.cdata.some THEN el.cdata.v ELSE <<>>))

(***************************************************************************)
(* serde_json::Map.  Without the preserve_order feature it is a BTreeMap   *)
(* (entries iterate in key order); with it an IndexMap (entries iterate in *)
(* insertion order, and remove is swap_remove: the last entry takes the    *)
(* place of the removed one).                                              *)
(***************************************************************************)
MapKeys(m) == [i \in 1..Len(m) |-> m[i][1]]

MapHas(m, k) == \E i \in 1..Len(m) : m[i][1] = k

MapIndex(m, k) == CHOOSE i \in 1..Len(m) : m[i][1] = k

\* Map::get
MapGet(m, k) == IF MapHas(m, k) THEN Some(m[MapIndex(m, k)][2]) ELSE None

\* Map::insert
MapInsert(m, k, v, po) ==
    IF MapHas(m, k) THEN [m EXCEPT ![MapIndex(m, k)] = <<k, v>>]
    ELSE IF po THEN Append(m, <<k, v>>)
    ELSE LET n == Cardinality({i \in 1..Len(m) : StrLess(m[i][1], k)})
         IN SubSeq(m, 1, n) \o <<<<k, v>>>> \o SubSeq(m, n + 1, Len(m))

\* Map::remove: the Map without the entry of k (k is a key of m)
MapRemove(m, k, po) ==
    LET i == MapIndex(m, k)
    IN IF po /\ i < Len(m)
       THEN [j \in 1..(Len(m) - 1) |-> IF j = i THEN m[Len(m)] ELSE m[j]]
       ELSE SubSeq(m, 1, i - 1) \o SubSeq(m, i + 1, Len(m))

\* Iterator::collect into a Map, and the insert loop of lines 106-108
RECURSIVE MapCollect(_, _, _)
MapCollect(m, pairs, po) ==
    IF pairs = <<>> THEN m
    ELSE MapCollect(MapInsert(m, Head(pairs)[1], Head(pairs)[2], po), Tail(pairs), po)

(***************************************************************************)
(* convert_node_aux.                                                       *)
(***************************************************************************)
\* the attribute name without the "@" prefix
AttrKey_noprefix(k) == k

\* format!("@{}", k)
AttrKey(k) == <<"@">> \o k

TextKey == <<"#", "t", "e", "x", "t">>

\* the (format!("@{}", k), parse_text(&v)) pairs of the attributes, in iteration order
AttrEntries(el) ==
    [i \in 1..Len(el.attributes) |->
        <<AttrKey(el.attributes[i][1]), parse_text(el.attributes[i][2])>>]

\* What a call of convert_node_aux ends with: Some(value), None, or a panic of an unwrap.
Panic == [tag |-> "panic", v |-> Null]
RetNone == [tag |-> "none", v |-> Null]
RetSome(v) == [tag |-> "some", v |-> v]

\* The state of the child loop: data, firstpass, vectorized, and whether an unwrap panicked.
FoldState(d, f, vz, p) == [data |-> d, firstpass |-> f, vectorized |-> vz, panicked |-> p]

\* lines 126-127: the first value of a tag
InsertFirst(st, name, v, po) ==
    FoldState(MapInsert(st.data, name, v, po), st.firstpass \cup {name}, st.vectorized, FALSE)

\* PromoteValue without vectorized.insert
PromoteValue_forgets(st, name, v, po) ==
    IF ~MapHas(st.data, name) THEN FoldState(st.data, st.firstpass, st.vectorized, TRUE)
    ELSE FoldState(MapInsert(MapRemove(st.data, name, po), name,
                             Array(<<MapGet(st.data, name).v, v>>), po),
                   st.firstpass, st.vectorized, FALSE)

\* lines 121-123: the second value of a tag
PromoteValue(st, name, v, po) ==
    IF ~MapHas(st.data, name) THEN FoldState(st.data, st.firstpass, st.vectorized, TRUE)
    ELSE FoldState(MapInsert(MapRemove(st.data, name, po), name,
                             Array(<<MapGet(st.data, name).v, v>>), po),
                   st.firstpass, st.vectorized \cup {name}, FALSE)

\* PushValue wrapping the array and the value in a new array
PushValue_rewraps(st, name, v) ==
    IF ~MapHas(st.data, name) \/ MapGet(st.data, name).v.t # "array"
    THEN FoldState(st.data, st.firstpass, st.vectorized, TRUE)
    ELSE FoldState([st.data EXCEPT ![MapIndex(st.data, name)] =
                        <<name, Array(<<MapGet(st.data, name).v, v>>)>>],
                   st.firstpass, st.vectorized, FALSE)

\* lines 115-119: a later value of a tag, pushed in place
PushValue(st, name, v) ==
    IF ~MapHas(st.data, name) \/ MapGet(st.data, name).v.t # "array"
    THEN FoldState(st.data, st.firstpass, st.vectorized, TRUE)
    ELSE FoldState([st.data EXCEPT ![MapIndex(st.data, name)] =
                        <<name, Array(Append(MapGet(st.data, name).v.a, v))>>],
                   st.firstpass, st.vectorized, FALSE)

\* FoldStep recording the tag of a child that yields no value
FoldStep_countsnone(st, name, r, po) ==
    IF r.tag = "panic" THEN FoldState(st.data, st.firstpass, st.vectorized, TRUE)
    ELSE IF r.tag = "none"
    THEN FoldState(st.data, st.firstpass \cup {name}, st.vectorized, FALSE)
    ELSE IF name \in st.firstpass
    THEN IF name \in st.vectorized THEN PushValue(st, name, r.v)
         ELSE PromoteValue(st, name, r.v, po)
    ELSE InsertFirst(st, name, r.v, po)

\* lines 112-129: the body of the child loop for a child called name whose
\* conversion ended with r
FoldStep(st, name, r, po) ==
    IF r.tag = "panic" THEN FoldState(st.data, st.firstpass, st.vectorized, TRUE)
    ELSE IF r.tag = "none" THEN st
    ELSE IF name \in st.firstpass
    THEN IF name \in st.vectorized THEN PushValue(st, name, r.v)
         ELSE PromoteValue(st, name, r.v, po)
    ELSE InsertFirst(st, name, r.v, po)

\* lines 101-109: the state the child loop starts in
FoldStart(el, po) == FoldState(MapCollect(<<>>, AttrEntries(el), po), {}, {}, FALSE)

RECURSIVE convert_node_aux(_, _)
RECURSIVE FoldChildren(_, _, _, _)

\* lines 111-130: the child loop from child i on, st being its state so far
FoldChildren(el, i, st, po) ==
    IF i > Len(el.children) \/ st.panicked THEN st
    ELSE FoldChildren(el, i + 1,
                      FoldStep(st, el.children[i].name,
                               convert_node_aux(el.children[i], po), po), po)

convert_node_aux(el, po) ==
    CASE scan_xml_node(el) = "Parent" ->
           IF FoldChildren(el, 1, FoldStart(el, po), po).panicked THEN Panic
           ELSE RetSome(Object(FoldChildren(el, 1, FoldStart(el, po), po).data))
      [] scan_xml_node(el) = "Text" -> RetSome(parse_text_contents(el))
      [] scan_xml_node(el) = "Attributes" ->
           RetSome(Object(MapCollect(<<>>, AttrEntries(el), po)))
      [] scan_xml_node(el) = "TextAndAttributes" ->
           RetSome(Object(MapCollect(<<>>,
                   Append(AttrEntries(el), <<TextKey, parse_text_contents(el)>>), po)))
      [] OTHER -> RetNone

\* WrapRoot without unwrap_or(Value::Null)
WrapRoot_bare(el, r, po) ==
    IF r.tag = "some" THEN MapInsert(<<>>, el.name, r.v, po) ELSE <<>>

\* lines 155-157: the Map node2object returns, r being what convert_node_aux(e) ended with
WrapRoot(el, r, po) ==
    MapInsert(<<>>, el.name, IF r.tag = "some" THEN r.v ELSE Null, po)

(***************************************************************************)
(* The elements node2object is called on.  Tag and attribute names are XML *)
(* names.  A root is a childless element of any shape, or has at most      *)
(* MaxChildren children drawn from Kids: childless elements that are       *)
(* Empty or Text, and Parent and SemiStructured elements over one          *)
(* grandchild.                                                             *)
(***************************************************************************)
Names == {<<"a">>, <<"b">>}

Texts == {<<"x">>, <<"7">>}

AttrValues == {<<"7">>, <<"x">>, <<"t", "r", "u", "e">>}

\* Sequences of 1..n elements of S
SeqsUpTo(S, n) == UNION { [1..m -> S] : m \in 1..n }

\* Attribute lists: each name at most once, in either iteration order
AttrLists(vals) ==
    {<<>>}
    \cup { <<<<k, v>>>> : k \in Names, v \in vals }
    \cup { <<<<ks[1], v1>>, <<ks[2], v2>>>> :
            ks \in {p \in Names \X Names : p[1] # p[2]}, v1 \in vals, v2 \in vals }

LeafRoots ==
    { Element(n, t, c, al, <<>>) :
        n \in Names,
        t \in {NoText} \cup { SomeText(s) : s \in Texts \cup {<<>>} },
        c \in {NoText} \cup { SomeText(s) : s \in Texts },
        al \in AttrLists(AttrValues) }

GrandKid == Element(<<"a">>, SomeText(<<"x">>), NoText, <<>>, <<>>)

KidLeaves ==
    { Element(n, NoText, NoText, <<>>, <<>>) : n \in Names }
    \cup { Element(n, SomeText(<<"x">>), NoText, <<>>, <<>>) : n \in Names }

KidInner ==
    { Element(n, t, NoText, <<>>, <<GrandKid>>) :
        n \in Names, t \in {NoText, SomeText(<<"x">>)} }

Kids == KidLeaves \cup KidInner

ParentAttrLists ==
    { <<>>, <<<<<<"a">>, <<"7">>>>>>, <<<<<<"b">>, <<"x">>>>, <<<<"a">>, <<"7">>>>>> }

ParentRoots ==
    { Element(n, NoText, NoText, al, cs) :
        n \in Names, al \in ParentAttrLists, cs \in SeqsUpTo(Kids, MaxChildren) }

SemiRoots ==
    { Element(n, t, c, al, <<k>>) :
        n \in Names, t \in {NoText, SomeText(<<"x">>)}, c \in {NoText, SomeText(<<"7">>)},
        al \in ParentAttrLists, k \in KidLeaves } \ ParentRoots

Roots == LeafRoots \cup ParentRoots \cup SemiRoots

(***************************************************************************)
(* node2object as a program: the call, the child loop of a Parent root     *)
(* one iteration at a time (each with the recursive call it makes), and    *)
(* the return.                                                             *)
(***************************************************************************)
Init ==
    /\ e \in Roots
    /\ preserve_order \in BOOLEAN
    /\ pc = "node2object"
    /\ kind = "unscanned"
    /\ data = <<>>
    /\ firstpass = {}
    /\ vectorized = {}
    /\ idx = 0
    /\ out = <<>>
    /\ text = <<>>
    /\ parsed = Null

\* lines 99-109: a Parent: the Map is seeded with the attributes
EnterParent ==
    /\ pc = "node2object"
    /\ scan_xml_node(e) = "Parent"
    /\ kind' = scan_xml_node(e)
    /\ data' = FoldStart(e, preserve_order).data
    /\ firstpass' = FoldStart(e, preserve_order).firstpass
    /\ vectorized' = FoldStart(e, preserve_order).vectorized
    /\ idx' = 1
    /\ pc' = "loop"
    /\ UNCHANGED <<e, preserve_order, out, text, parsed>>

\* lines 133-148 and 156: Text, Attributes, TextAndAttributes
ConvertValue ==
    /\ pc = "node2object"
    /\ scan_xml_node(e) \in {"Text", "Attributes", "TextAndAttributes"}
    /\ kind' = scan_xml_node(e)
    /\ out' = WrapRoot(e, convert_node_aux(e, preserve_order), preserve_order)
    /\ pc' = "done"
    /\ UNCHANGED <<e, preserve_order, data, firstpass, vectorized, idx, text, parsed>>

\* lines 149 and 156: the remaining categories yield None
ConvertNone ==
    /\ pc = "node2object"
    /\ scan_xml_node(e) \notin {"Parent", "Text", "Attributes", "TextAndAttributes"}
    /\ kind' = scan_xml_node(e)
    /\ out' = WrapRoot(e, convert_node_aux(e, preserve_order), preserve_order)
    /\ pc' = "done"
    /\ UNCHANGED <<e, preserve_order, data, firstpass, vectorized, idx, text, parsed>>

InLoop == pc = "loop" /\ idx <= Len(e.children)

\* line 112: the recursive call on child idx
ChildResult == {convert_node_aux(e.children[idx], preserve_order)}

\* lines 112-129: one iteration of the child loop, on child idx whose conversion ended with r
Iterate(r) ==
    \E st \in {FoldStep(FoldState(data, firstpass, vectorized, FALSE),
                        e.children[idx].name, r, preserve_order)} :
       /\ data' = st.data
       /\ firstpass' = st.firstpass
       /\ vectorized' = st.vectorized
       /\ idx' = idx + 1
       /\ pc' = IF st.panicked THEN "panicked" ELSE "loop"
       /\ UNCHANGED <<e, preserve_order, kind, out, text, parsed>>

\* line 112: the child yields no value
FoldSkip ==
    /\ InLoop
    /\ \E r \in ChildResult : r.tag # "some" /\ Iterate(r)

\* lines 125-128
FoldFirst ==
    /\ InLoop
    /\ e.children[idx].name \notin firstpass
    /\ \E r \in ChildResult : r.tag = "some" /\ Iterate(r)

\* lines 120-124
FoldPromote ==
    /\ InLoop
    /\ e.children[idx].name \in firstpass \ vectorized
    /\ \E r \in ChildResult : r.tag = "some" /\ Iterate(r)

\* lines 114-119
FoldPush ==
    /\ InLoop
    /\ e.children[idx].name \in firstpass \cap vectorized
    /\ \E r \in ChildResult : r.tag = "some" /\ Iterate(r)

\* lines 131 and 156: the loop is over
ReturnParent ==
    /\ pc = "loop"
    /\ idx > Len(e.children)
    /\ out' = WrapRoot(e, RetSome(Object(data)), preserve_order)
    /\ pc' = "done"
    /\ UNCHANGED <<e, preserve_order, kind, data, firstpass, vectorized, idx, text, parsed>>

Next ==
    \/ EnterParent
    \/ ConvertValue
    \/ ConvertNone
    \/ FoldSkip
    \/ FoldFirst
    \/ FoldPromote
    \/ FoldPush
    \/ ReturnParent

Spec == Init /\ [][Next]_vars

(***************************************************************************)
(* Arguments of parse_text: every string of at most MaxTextLen characters  *)
(* over TextAlphabet, and the texts of TextSamples.                        *)
(***************************************************************************)
TextAlphabet == {"1", "0", ".", "e", "-", "t"}

TextSamples ==
    { <<"t", "r", "u", "e">>, <<"f", "a", "l", "s", "e">>, <<"T", "r", "u", "e">>,
      <<"T", "R", "U", "E">>, <<"t", "r", "u", "e", " ">>,
      <<"K", "o", "l", "y", "a">>, <<"9", "0", "0", "0">>, <<"9", "0", "0", "0", ".", "0">>,
      <<"1", "7", "3", ".", "5">>, <<"+", "9", "e", "3">>, <<" ", "1">>, <<"1", " ">>,
      <<"i", "n", "f">>, <<"-", "i", "n", "f">>, <<"I", "N", "F">>,
      <<"i", "n", "f", "i", "n", "i", "t", "y">>, <<"N", "a", "N">>, <<"n", "a", "n">>,
      <<"1", "e", "9", "9", "9">>, <<"-", "1", "e", "9", "9", "9">>, <<"2", "e", "3", "0", "8">>,
      <<"1", "e", "3", "0", "8">>, <<"1", "e", "-", "9", "9", "9">>, <<"1", "E", "2">>,
      <<"1", "e", "+", "2">>, <<"0", "x", "1", "0">>, <<"1", "e", "1", ".", "0">> }

TextArgs ==
    UNION { [1..n -> TextAlphabet] : n \in 0..MaxTextLen } \cup TextSamples

(***************************************************************************)
(* parse_text as a program: called on one argument.                        *)
(***************************************************************************)
TextInit ==
    /\ text \in TextArgs
    /\ parsed = Null
    /\ pc = "parse_text"
    /\ e = [name |-> <<"e">>, text |-> None, cdata |-> None, attributes |-> <<>>, children |-> <<>>]
    /\ preserve_order = FALSE
    /\ kind = "Empty"
    /\ data = <<>>
    /\ firstpass = {}
    /\ vectorized = {}
    /\ idx = 0
    /\ out = <<>>

ParseText ==
    /\ pc = "parse_text"
    /\ parsed' = parse_text(text)
    /\ pc' = "parsed"
    /\ UNCHANGED <<text, treeVars>>

TextNext == ParseText

SpecText == TextInit /\ [][TextNext]_vars

(***************************************************************************)
(* Notions the properties are stated in.                                   *)
(***************************************************************************)
Categories == {"Empty", "Text", "Attributes", "TextAndAttributes", "Parent", "SemiStructured"}

HasText(el) == el.text.some \/ el.cdata.some

\* The category by the three facts: has children, has text or CDATA, has attributes
CategoryTable(hasChildren, hasText, hasAttributes) ==
    CASE ~hasChildren /\ ~hasText /\ ~hasAttributes -> "Empty"
      [] ~hasChildren /\ ~hasText /\ hasAttributes -> "Attributes"
      [] ~hasChildren /\ hasText /\ ~hasAttributes -> "Text"
      [] ~hasChildren /\ hasText /\ hasAttributes -> "TextAndAttributes"
      [] hasChildren /\ ~hasText -> "Parent"
      [] hasChildren /\ hasText -> "SemiStructured"

\* The text of an element followed by its CDATA, an absent part counting as empty
Contents(el) ==
    (IF el.text.some THEN el.text.v ELSE <<>>) \o (IF el.cdata.some THEN el.cdata.v ELSE <<>>)

\* The loop of a Parent root is running or over
Folding == pc \in {"loop", "done"} /\ kind = "Parent"

\* The children the loop has processed
Folded == SubSeq(e.children, 1, idx - 1)

Yield(c) == convert_node_aux(c, preserve_order)

\* The converted values of the elements of cs named t that yield a value, in order
RECURSIVE ValuesOfTag(_, _)
ValuesOfTag(cs, t) ==
    IF cs = <<>> THEN <<>>
    ELSE LET c == cs[Len(cs)]
             r == Yield(c)
             before == ValuesOfTag(SubSeq(cs, 1, Len(cs) - 1), t)
         IN IF c.name = t /\ r.tag = "some" THEN Append(before, r.v) ELSE before

\* The tags of the elements of cs that yield a value, each once, in order of first occurrence
RECURSIVE FirstOccurrences(_)
FirstOccurrences(cs) ==
    IF cs = <<>> THEN <<>>
    ELSE LET c == cs[Len(cs)]
             before == FirstOccurrences(SubSeq(cs, 1, Len(cs) - 1))
         IN IF Yield(c).tag = "some" /\ \A i \in 1..Len(before) : before[i] # c.name
            THEN Append(before, c.name) ELSE before

IsSemi(c) == c.children # <<>> /\ HasText(c)

NotSemi(c) == ~IsSemi(c)

\* The state of the child loop of el were its children cs
FoldOver(el, cs) ==
    FoldChildren([el EXCEPT !.children = cs], 1, FoldStart(el, preserve_order), preserve_order)

(***************************************************************************)
(* C1: a node of category Empty converts to null wherever it occurs: an    *)
(* Empty child of a Parent is an entry <tag> -> null of the parent's       *)
(* mapping (or an element null of the tag's array), as an Empty root       *)
(* gives {<root>: null}.                                                   *)
(***************************************************************************)
C1_EmptyChildIsNull ==
    /\ (pc = "done" /\ kind = "Empty") => out = <<<<e.name, Null>>>>
    /\ Folding =>
         \A i \in 1..Len(Folded) :
            scan_xml_node(Folded[i]) = "Empty" =>
               /\ MapHas(data, Folded[i].name)
               /\ LET v == MapGet(data, Folded[i].name).v
                  IN v = Null \/ (v.t = "array" /\ \E j \in 1..Len(v.a) : v.a[j] = Null)

(***************************************************************************)
(* C2: after the child loop of a Parent (and after each of its             *)
(* iterations), for every tag t with v1..vn the converted values of the    *)
(* processed direct children named t that yield a value, in document       *)
(* order: no key t if n = 0, t -> v1 if n = 1, and t -> the flat array     *)
(* [v1, ..., vn] if n >= 2, adjacent or not.                               *)
(***************************************************************************)
C2_RepeatedTagsFlatArray ==
    Folding =>
       /\ \A t \in Names :
             LET vs == ValuesOfTag(Folded, t)
             IN /\ Len(vs) = 0 => ~MapHas(data, t)
                /\ Len(vs) = 1 => MapGet(data, t) = Some(vs[1])
                /\ Len(vs) >= 2 =>
                      /\ MapGet(data, t) = Some(Array(vs))
                      /\ \A j \in 1..Len(vs) : vs[j].t # "array"
       /\ pc = "done" => out = <<<<e.name, Object(data)>>>>

C2_ThirdOccurrenceAppended ==
    /\ pc = "done" /\ kind = "Parent"
    /\ \E t \in Names :
          /\ Len(ValuesOfTag(e.children, t)) = 3
          /\ MapGet(out[1][2].o, t).v.t = "array"
          /\ Len(MapGet(out[1][2].o, t).v.a) = 3

(***************************************************************************)
(* C3: node2object returns a mapping with exactly one entry, keyed by the  *)
(* root's tag, whose value is the converter's result for the root, null    *)
(* when it yields none (as for a SemiStructured root); a descendant with   *)
(* the root's tag adds or overwrites no top-level key.                     *)
(***************************************************************************)
C3_SingleRootEntry ==
    pc = "done" =>
       /\ Len(out) = 1
       /\ out[1][1] = e.name
       /\ \E r \in {Yield(e)} : out[1][2] = IF r.tag = "some" THEN r.v ELSE Null
       /\ kind = "SemiStructured" => out[1][2] = Null
       /\ kind \in {"Text", "Attributes", "TextAndAttributes", "Parent"} => out[1][2] # Null

C3_SemiRootWithSameTagChild ==
    /\ pc = "done" /\ kind = "SemiStructured"
    /\ \E i \in 1..Len(e.children) : e.children[i].name = e.name
    /\ out = <<<<e.name, Null>>>>

(***************************************************************************)
(* C4: the keys of a Parent's mapping are the attribute keys in attribute  *)
(* order, then the child tags in order of first occurrence; promotion to   *)
(* an array and appends never move a key.                                  *)
(***************************************************************************)
C4_KeysInFirstOccurrenceOrder ==
    Folding =>
       MapKeys(data) =
          [i \in 1..Len(e.attributes) |-> <<"@">> \o e.attributes[i][1]]
          \o FirstOccurrences(Folded)

(***************************************************************************)
(* C5: during and after the child loop of a Parent, every attribute k=v is *)
(* the entry "@k" -> parse_text(v), the keys that start with "@" are       *)
(* exactly the attributes', and a child tagged like an attribute has its   *)
(* own key.                                                                *)
(***************************************************************************)
C5_AttributesKept ==
    Folding =>
       /\ \A i \in 1..Len(e.attributes) :
             MapGet(data, <<"@">> \o e.attributes[i][1]) = Some(parse_text(e.attributes[i][2]))
       /\ Cardinality({i \in 1..Len(data) : data[i][1][1] = "@"}) = Len(e.attributes)
       /\ \A t \in Names :
             Len(ValuesOfTag(Folded, t)) > 0 =>
                /\ MapHas(data, t)
                /\ MapIndex(data, t) \notin {i \in 1..Len(data) : data[i][1][1] = "@"}

C5_AttributeAndChildSameName ==
    /\ pc = "done" /\ kind = "Parent"
    /\ \E i \in 1..Len(e.attributes) :
          /\ e.attributes[i][1] \in vectorized
          /\ MapHas(data, e.attributes[i][1])
          /\ MapGet(data, <<"@">> \o e.attributes[i][1]) = Some(parse_text(e.attributes[i][2]))

(***************************************************************************)
(* C6: a SemiStructured child contributes nothing to its parent's loop:    *)
(* the mapping and the first-seen / already-array sets are, after every    *)
(* iteration, those of the loop run over the other children alone; a tag   *)
(* none of whose children yields a value is no key, and a tag with one     *)
(* value-yielding child holds a plain value.                               *)
(***************************************************************************)
C6_SemiStructuredChildSkipped ==
    Folding =>
       /\ \A i \in 1..Len(Folded) : IsSemi(Folded[i]) => Yield(Folded[i]).tag = "none"
       /\ FoldState(data, firstpass, vectorized, FALSE) = FoldOver(e, SelectSeq(Folded, NotSemi))
       /\ \A t \in Names :
             \E n \in {Len(ValuesOfTag(Folded, t))} :
                /\ n = 0 => ~MapHas(data, t)
                /\ n = 1 => MapGet(data, t).v.t # "array"

C6_SkippedBesideSibling ==
    /\ pc = "done" /\ kind = "Parent"
    /\ \E i, j \in 1..Len(e.children) :
          /\ i < j
          /\ IsSemi(e.children[i])
          /\ e.children[j].name = e.children[i].name
          /\ Len(ValuesOfTag(e.children, e.children[i].name)) = 1
          /\ MapGet(data, e.children[i].name) = Some(Yield(e.children[j]).v)

(***************************************************************************)
(* C7: parse_text returns, for every string, the number when the string    *)
(* parses as a finite float; otherwise the boolean when it is exactly      *)
(* "true" or "false"; otherwise the string unchanged.  A non-finite parse  *)
(* (infinity, NaN, overflow) gives the string, "" gives "", and a boolean  *)
(* is never the result for a finite number.                                *)
(***************************************************************************)
C7_ParseTextTrialOrder ==
    pc = "parsed" =>
       LET f == ParseF64(text)
           isBool == text \in {<<"t", "r", "u", "e">>, <<"f", "a", "l", "s", "e">>}
       IN /\ parsed.t \in {"number", "bool", "string"}
          /\ f.class = "finite" =>
                parsed = [t |-> "number", neg |-> f.neg, m |-> f.m, e |-> f.e]
          /\ (f.class # "finite" /\ isBool) => parsed = Bool(text = <<"t", "r", "u", "e">>)
          /\ (f.class # "finite" /\ ~isBool) => parsed = String(text)
          /\ f.class \in {"inf", "nan"} => parsed = String(text)
          /\ text = <<>> => parsed = String(<<>>)
          /\ parsed.t = "bool" => f.class # "finite"

C7_OverflowIsString ==
    /\ pc = "parsed"
    /\ text = <<"1", "e", "9", "9", "9">>
    /\ ParseF64(text).ok
    /\ parsed = String(text)

(***************************************************************************)
(* C8: for a root without children: attributes and no text/CDATA give a    *)
(* mapping with exactly the keys "@k", each parse_text of its value;       *)
(* attributes and text/CDATA give that mapping plus the one key "#text"    *)
(* with parse_text of text followed by CDATA; text/CDATA without           *)
(* attributes gives that scalar itself.                                    *)
(***************************************************************************)
C8_ChildlessShapes ==
    (pc = "done" /\ e.children = <<>> /\ (e.attributes # <<>> \/ HasText(e))) =>
       LET v == out[1][2]
           n == Len(e.attributes)
       IN IF n = 0 THEN v = parse_text(Contents(e)) /\ v.t # "object"
          ELSE /\ v.t = "object"
               /\ \A i \in 1..n :
                     MapGet(v.o, <<"@">> \o e.attributes[i][1])
                        = Some(parse_text(e.attributes[i][2]))
               /\ IF HasText(e)
                  THEN /\ Len(v.o) = n + 1
                       /\ MapGet(v.o, <<"#", "t", "e", "x", "t">>) = Some(parse_text(Contents(e)))
                  ELSE Len(v.o) = n

C8_TextThenCdata ==
    /\ pc = "done" /\ kind = "TextAndAttributes"
    /\ e.text = SomeText(<<"7">>) /\ e.cdata = SomeText(<<"x">>)
    /\ MapGet(out[1][2].o, <<"#", "t", "e", "x", "t">>) = Some(String(<<"7", "x">>))
    /\ Len(out[1][2].o) = Len(e.attributes) + 1

(***************************************************************************)
(* C9: scan_xml_node gives every element exactly the category of the table *)
(* over its three facts (has children, has text or CDATA, has attributes); *)
(* attributes do not matter with children, and CDATA alone is text.        *)
(***************************************************************************)
C9_CategoryByThreeFacts ==
    pc # "node2object" =>
       /\ kind \in Categories
       /\ kind = CategoryTable(e.children # <<>>, HasText(e), e.attributes # <<>>)
       /\ \A i \in 1..Len(e.children) :
             scan_xml_node(e.children[i]) =
                CategoryTable(e.children[i].children # <<>>, HasText(e.children[i]),
                              e.children[i].attributes # <<>>)

C9_CdataAloneIsText ==
    /\ pc = "done" /\ kind = "Text"
    /\ ~e.text.some /\ e.cdata.some

(***************************************************************************)
(* C10: in the child loop of a Parent, the already-array set is within the *)
(* first-seen set, every first-seen tag is a key of the mapping, and its   *)
(* value is an array exactly when the tag is in the already-array set; the *)
(* converter never yields an array for a node, and no unwrap panics.       *)
(***************************************************************************)
C10_LoopInvariant ==
    /\ pc # "panicked"
    /\ pc = "done" => out[1][2].t # "array"
    /\ Folding =>
          /\ \A i \in 1..Len(Folded) :
                \E r \in {Yield(Folded[i])} :
                   r.tag # "panic" /\ (r.tag = "some" => r.v.t # "array")
          /\ vectorized \subseteq firstpass
          /\ \A t \in firstpass :
                /\ MapHas(data, t)
                /\ MapGet(data, t).v.t = "array" <=> t \in vectorized

C10_LookupsSucceeded ==
    /\ pc = "loop" /\ idx = Len(e.children)
    /\ e.children[idx].name \in vectorized
    /\ MapGet(data, e.children[idx].name).v.t = "array"
    /\ Yield(e.children[idx]).tag = "some"

====
